---- MODULE Spec2Model ----
(***************************************************************************)
(* Model of the incremental hull constructor of ConvexHull (src/main.cc).  *)
(*                                                                         *)
(* State: the point set `points`, the chain `line_segments`, and what the  *)
(* last call of SolverStep() observed (its return value, the chain it was  *)
(* called with, the chain after the closure check, the selection result),  *)
(* and the state of the loop of main() that calls it, draws and saves.     *)
(*                                                                         *)
(* Arithmetic.  Points lie on an integer grid, so every difference,         *)
(* product and sum of the code is computed without rounding and is         *)
(* modelled by the integer operation.  Two things of the float             *)
(* arithmetic are kept because the code's comparisons depend on them:      *)
(*   - the sign of a zero (IEEE 754: x*0 has the sign of x, x-x is +0,     *)
(*     (-0)-(+0) is -0), since atan2f(-0, d) with d < 0 is -pi, not +pi;   *)
(*   - the values at which the code compares an angle with a constant:     *)
(*     atan2f(..)*180.0f/PI is exactly 0, 90, 180 or -180 at multiples of  *)
(*     a right angle, so that 180 - (-180) is exactly the 360.0f min_ang   *)
(*     starts with.                                                        *)
(* `mean` is the arithmetic mean of the points; the model holds it and v1  *)
(* multiplied by N = Len(points), which changes no sign and no angle.      *)
(* GenerateData sums pt*(1.0f/N): the sum is this mean exactly when N is a *)
(* power of two, and within a rounding error of it otherwise.              *)
(* Sequences are 1-based: index i of the model is index i-1 of the code.   *)
(***************************************************************************)
EXTENDS Integers, Sequences, FiniteSets, TLC

\* ---------------------------------------------------------------- bounds
MaxX == 3      \* x coordinates of the points are in 0..MaxX
MaxY == 2      \* y coordinates of the points are in 0..MaxY
MaxN == 4      \* number of points (kSamples of the code), 1..MaxN
MaxCalls == 10 \* calls of SolverStep() in one run of the model

Grid == (0..MaxX) \X (0..MaxY)

VARIABLES
  points,          \* std::vector<vec2f> points, filled once by GenerateData
  line_segments,   \* std::vector<vec2f> line_segments: the chain
  ret,             \* result of the last SolverStep(): "none", "true", "false"
  old,             \* line_segments when the last SolverStep() was entered
  pruned,          \* line_segments after the closure check of that call
  branch,          \* path of that call: "none","done","seed","replace","append"
  closest,         \* `closest` at the end of that call's selection loop (1-based)
  min_ang,         \* `min_ang` at the end of that call's selection loop
  k,               \* int k of main(): the calls of SolverStep() that returned true
  calls,           \* the calls of SolverStep() main() has made
  prunes,          \* the calls among them that erased a prefix (line 178)
  prev_time,       \* double prev_time of main(): "initial" is -kAnime
  ticked,          \* whether the last loop iteration called SolverStep()
  segments,        \* line_segments.size() as the last iteration's drawing read it,
                   \* -1 before the first drawing
  k_saved,         \* int k_saved of main()
  images           \* the numbers of the files out/<k>.png, in the order written

vars == <<points, line_segments, ret, old, pruned, branch, closest, min_ang, k, calls,
          prunes, prev_time, ticked, segments, k_saved, images>>

\* ------------------------------------------------------- float arithmetic
\* A float with an exactly represented value v; nz marks the negative zero.
Flt(v) == [v |-> v, nz |-> FALSE]
SignBit(a) == a.v < 0 \/ a.nz
FMul(a, b) == [v |-> a.v * b.v, nz |-> (a.v * b.v = 0) /\ (SignBit(a) # SignBit(b))]
FAdd(a, b) == [v |-> a.v + b.v, nz |-> (a.v + b.v = 0) /\ a.nz /\ b.nz]
FSub(a, b) == [v |-> a.v - b.v, nz |-> (a.v - b.v = 0) /\ a.nz /\ (b.v = 0 /\ ~b.nz)]

\* vec2f::operator-  and  vec2f::operator==  on grid points
VecSub(a, b) == <<FSub(Flt(a[1]), Flt(b[1])), FSub(Flt(a[2]), Flt(b[2]))>>
VecEq(a, b) == a[1] = b[1] /\ a[2] = b[2]
\* vec2f::norm() == 0.0f
NormIsZero(v) == v[1].v = 0 /\ v[2].v = 0

\* ------------------------------------------------------------------ mean
RECURSIVE SumX(_), SumY(_)
SumX(s) == IF s = <<>> THEN 0 ELSE Head(s)[1] + SumX(Tail(s))
SumY(s) == IF s = <<>> THEN 0 ELSE Head(s)[2] + SumY(Tail(s))
\* N * mean
mean(pts) == <<SumX(pts), SumY(pts)>>
\* N * (p - mean)
SubMean(p, pts) ==
  <<FSub(Flt(Len(pts) * p[1]), Flt(mean(pts)[1])),
    FSub(Flt(Len(pts) * p[2]), Flt(mean(pts)[2]))>>

\* ----------------------------------------------------------------- angle
\* The value of  ang  after lines 202-203, as far as comparisons see it:
\*   cls 0 : ang = 0 (or -0)            cls 1 : 0 < ang < 180, direction (x,y), y > 0
\*   cls 2 : ang = 180                  cls 3 : 180 < ang < 360, ang = 180 + the
\*   cls 4 : ang = 360                          angle of direction (x,y), y > 0
Angle(det, dot) ==
  IF det.v > 0 THEN [cls |-> 1, x |-> dot.v, y |-> det.v]
  ELSE IF det.v < 0 THEN [cls |-> 3, x |-> dot.v, y |-> 0 - det.v]
  ELSE IF ~det.nz
       THEN (IF SignBit(dot) THEN [cls |-> 2, x |-> -1, y |-> 0]
                             ELSE [cls |-> 0, x |-> 1, y |-> 0])
       ELSE (IF SignBit(dot) THEN [cls |-> 4, x |-> -1, y |-> 0]
                             ELSE [cls |-> 0, x |-> 1, y |-> 0])

\* a < b on two such values
AngLess(a, b) ==
  \/ a.cls < b.cls
  \/ a.cls = b.cls /\ a.cls \in {1, 3} /\ a.x * b.y - a.y * b.x > 0

\* line 210 testing min_ang < 360 instead of 90
AngLess90_Lt360(a) == a.cls < 4

\* ang < 90
AngLess90(a) == a.cls = 0 \/ (a.cls = 1 /\ a.x > 0)

\* float min_ang = 360.0f
Ang360 == [cls |-> 4, x |-> -1, y |-> 0]

\* lines 198-203 for one candidate pt: the angle from v1 to v2 = pt - lst
ang(v1, v2) ==
  LET dot == FAdd(FMul(v1[1], v2[1]), FMul(v1[2], v2[2]))
      det == FSub(FMul(v1[1], v2[2]), FMul(v1[2], v2[1]))
  IN  Angle(det, dot)

\* ------------------------------------------------------------- selection
\* lines 204-208: the candidate idx with angle a against the running
\* closest and min_ang in st
Update(st, idx, a) ==
  IF AngLess(a, st.min_ang) THEN [closest |-> idx, min_ang |-> a] ELSE st

\* lines 197-208 for the candidate idx
Candidate(pts, l, v1, idx, st, v2) ==
  IF NormIsZero(v2) THEN st ELSE Update(st, idx, ang(v1, v2))

\* The loop of lines 195-209 from index idx on, with v1 of line 192 and the
\* running closest and min_ang in st.
RECURSIVE SelectLoop(_, _, _, _, _)
SelectLoop(pts, l, v1, idx, st) ==
  IF idx > Len(pts) THEN st
  ELSE SelectLoop(pts, l, v1, idx + 1,
                  Candidate(pts, l, v1, idx, st, VecSub(pts[idx], l)))

\* lines 191-209: v1 = lst - mean, closest = 0 (the model's index 1),
\* min_ang = 360
Select(pts, l) ==
  LET v1 == SubMean(l, pts)
  IN  SelectLoop(pts, l, <<v1[1], v1[2]>>, 1, [closest |-> 1, min_ang |-> Ang360])

\* --------------------------------------------------------- closure check
\* the same scan started at index 1 instead of 0
Matches_SkipFirst(ls) == {i \in 2..(Len(ls) - 1) : VecEq(ls[Len(ls)], ls[i])}

\* lines 173-174: the indices before the last whose element equals the last
Matches(ls) == {i \in 1..(Len(ls) - 1) : VecEq(ls[Len(ls)], ls[i])}
\* the first of them, where the loop stops (return or break)
FirstMatch(ls) == CHOOSE i \in Matches(ls) : \A j \in Matches(ls) : i <= j

\* the closure check without its return: a match at index 0 is erased like
\* any other
Closed_NoReturn(ls) == FALSE

\* the closure check returning at any match, not only at index 0
Closed_AnyMatch(ls) == Len(ls) > 1 /\ Matches(ls) # {}

\* lines 171-176: the first match is at index 0, return false
Closed(ls) == Len(ls) > 1 /\ Matches(ls) # {} /\ FirstMatch(ls) = 1

\* erase(begin, begin+idx+2), one element too many
Erase_OneMore(ls, idx) == SubSeq(ls, idx + 2, Len(ls))

\* the erase keeping the last vertex only
Erase_KeepLast(ls, idx) == <<ls[Len(ls)]>>

\* erase(begin, begin+idx), one element short
Erase_OffByOne(ls, idx) == SubSeq(ls, idx, Len(ls))

\* line 178: erase(begin, begin+idx+1); idx is the model's index of the match
Erase(ls, idx) == SubSeq(ls, idx + 1, Len(ls))

\* the closure check erasing before it tests idx == 0
ClosureCheck_EraseFirst(ls) ==
  IF Closed(ls) THEN [done |-> TRUE, ls |-> Erase(ls, 1)]
  ELSE IF Len(ls) > 1 /\ Matches(ls) # {}
       THEN [done |-> FALSE, ls |-> Erase(ls, FirstMatch(ls))]
       ELSE [done |-> FALSE, ls |-> ls]

\* lines 171-182: whether the call returns false here, and the chain after it
ClosureCheck(ls) ==
  IF Closed(ls) THEN [done |-> TRUE, ls |-> ls]
  ELSE IF Len(ls) > 1 /\ Matches(ls) # {}
       THEN [done |-> FALSE, ls |-> Erase(ls, FirstMatch(ls))]
       ELSE [done |-> FALSE, ls |-> ls]

\* ------------------------------------------------------------- placement
\* the seed taken from the (truncated) mean instead of points[0]
Seed_Mean(pts) == <<SumX(pts) \div Len(pts), SumY(pts) \div Len(pts)>>

\* line 187: the seed of an empty chain
Seed(pts) == pts[1]

\* line 210 without the test lst == 0
Place_NoLstTest(pts, ls, st) ==
  IF AngLess90(st.min_ang)
  THEN [ls EXCEPT ![Len(ls)] = pts[st.closest]]
  ELSE Append(ls, pts[st.closest])

\* lines 210-211 on the chain ls with the selection result st
Place(pts, ls, st) ==
  IF AngLess90(st.min_ang) /\ Len(ls) = 1
  THEN [ls EXCEPT ![Len(ls)] = pts[st.closest]]
  ELSE Append(ls, pts[st.closest])

\* ------------------------------------------------------------ the system
\* GenerateData: N points, here N in 1..MaxN and the points on the grid
PointSets == UNION {[1..n -> Grid] : n \in 1..MaxN}

Init ==
  /\ points \in PointSets
  /\ line_segments = <<>>
  /\ ret = "none"
  /\ old = <<>>
  /\ pruned = <<>>
  /\ branch = "none"
  /\ closest = 0
  /\ min_ang = Ang360
  /\ k = 0
  /\ calls = 0
  /\ prunes = 0
  /\ prev_time = "initial"
  /\ ticked = FALSE
  /\ segments = -1
  /\ k_saved = 0
  /\ images = <<>>

\* bool SolverStep(), lines 169-234
SolverStep ==
  /\ old' = line_segments
  /\ UNCHANGED points
  /\ \E cc \in {ClosureCheck(line_segments)} :
       /\ pruned' = cc.ls
       /\ ret' = IF cc.done THEN "false" ELSE "true"
  /\ IF ret' = "false"
     THEN /\ line_segments' = pruned'
          /\ branch' = "done"
          /\ UNCHANGED <<closest, min_ang>>
     ELSE IF pruned' = <<>>
     THEN /\ line_segments' = Append(pruned', Seed(points))
          /\ branch' = "seed"
          /\ UNCHANGED <<closest, min_ang>>
     ELSE /\ \E st \in {Select(points, pruned'[Len(pruned')])} :
               /\ closest' = st.closest
               /\ min_ang' = st.min_ang
          /\ line_segments' =
               Place(points, pruned', [closest |-> closest', min_ang |-> min_ang'])
          /\ branch' = IF Len(line_segments') = Len(pruned')
                       THEN "replace" ELSE "append"

\* int(true) for every result
BoolToInt_Always(r) == 1

\* line 261: int(SolverStep())
BoolToInt(r) == IF r = "true" THEN 1 ELSE 0

\* main(), lines 259-263: the solver step of one loop iteration,
\* k += int(SolverStep())
Tick ==
  /\ calls < MaxCalls
  /\ calls' = calls + 1
  /\ SolverStep
  /\ k' = k + BoolToInt(ret')
  /\ prunes' = IF ret' = "true" /\ Len(pruned') < Len(old') THEN prunes + 1 ELSE prunes

\* the test of line 259 left to the clock in the first iteration too
Due_Any(prev) == BOOLEAN

\* line 259: current_time - kAnime >= prev_time.  glfwGetTime() is not
\* negative, so the test holds while prev_time is -kAnime; afterwards it
\* depends on the time that has passed
Due(prev) == IF prev = "initial" THEN {TRUE} ELSE BOOLEAN

\* line 295 saving in every iteration
SaveDue_Always(kk, ks) == TRUE

\* line 295: if (k != k_saved)
SaveDue(kk, ks) == kk # ks

\* lines 306-308: the number in the name of the file written
FileNumber(kk) == kk

\* lines 295-310: save the frame when k has changed
Save ==
  IF SaveDue(k', k_saved)
  THEN /\ images' = Append(images, FileNumber(k'))
       /\ k_saved' = k'
  ELSE UNCHANGED <<images, k_saved>>

\* lines 277-291: the drawing reads line_segments.size()
Render == segments' = Len(line_segments')

\* main(), lines 256-312: one iteration of the loop
Iteration ==
  \E elapsed \in Due(prev_time) :
    /\ IF elapsed
       THEN Tick /\ prev_time' = "current"
       ELSE UNCHANGED <<points, line_segments, ret, old, pruned, branch, closest,
                        min_ang, k, calls, prunes, prev_time>>
    /\ ticked' = elapsed
    /\ Render
    /\ Save

Next == Iteration

Spec == Init /\ [][Next]_vars

\* the point set holds at least two distinct points
TwoDistinct == \E i, j \in 1..Len(points) : ~VecEq(points[i], points[j])

\* ------------------------------------------------------------------ C1
\* C1: for every point set with at least two distinct points, calling
\* SolverStep() again and again from the empty chain reaches a call that
\* returns false (Done) after finitely many calls: no run of MaxCalls calls
\* consists of calls returning true only.
C1_Termination == (TwoDistinct /\ calls = MaxCalls) => ret = "false"

\* a run over two distinct points that appended, closed and returned false
C1_Witness ==
  /\ TwoDistinct
  /\ ret = "false"
  /\ k >= 3
  /\ Len(line_segments) >= 3
  /\ VecEq(line_segments[1], line_segments[Len(line_segments)])

\* ------------------------------------------------------------------ C2
\* C2: once a call of SolverStep() has returned false (Done), every later
\* call returns false too and leaves line_segments exactly as it was.
C2_Idempotent ==
  [][ret = "false" => (ret' = "false" /\ line_segments' = line_segments)]_vars

\* a second call has returned false after the first one
C2_Witness == ret = "false" /\ calls >= k + 2

\* ------------------------------------------------------------------ C3
\* the chain has at least 2 elements and its last element equals its first
LastIsFirst(ls) == Len(ls) >= 2 /\ VecEq(ls[Len(ls)], ls[1])

\* C3: a call made with a chain of at least 2 elements whose last element
\* equals the first returns false and leaves the chain unchanged; a call made
\* in any other state returns true and changes the chain.
C3_ClosureDetection ==
  [][calls' # calls =>
       IF LastIsFirst(line_segments)
       THEN ret' = "false" /\ line_segments' = line_segments
       ELSE ret' = "true" /\ line_segments' # line_segments]_vars

\* a call returned true on a chain whose last element repeats an inner one
C3_Witness ==
  /\ ret = "true"
  /\ Len(old) >= 2
  /\ ~LastIsFirst(old)
  /\ \E i \in 2..(Len(old) - 1) : VecEq(old[i], old[Len(old)])

\* ------------------------------------------------------------------ C4
\* the last call pruned: it was entered with a chain whose last element
\* first repeats the element at index idx of the code, idx > 0
PrunedAt(idx) ==
  /\ branch \in {"replace", "append"}
  /\ Len(old) >= 2
  /\ idx >= 1 /\ idx + 1 < Len(old)
  /\ VecEq(old[idx + 1], old[Len(old)])
  /\ \A i \in 1..idx : ~VecEq(old[i], old[Len(old)])

\* C4 as stated: when the call is made with a chain [A, B, ..., B] whose last
\* element repeats the one at index 1, the chain after pruning and before the
\* new vertex is appended is exactly [B]: only the repeated tail vertex remains.
C4_Original == PrunedAt(1) => pruned = <<old[Len(old)]>>

\* C4 amended: the chain after pruning holds every element after the first
\* occurrence of the repeated point, in order: [A, B, C, B] becomes [C, B].
C4_PruneKeepsTail ==
  PrunedAt(1) =>
    /\ Len(pruned) = Len(old) - 2
    /\ \A i \in 1..Len(pruned) : pruned[i] = old[i + 2]

\* a call pruned a chain with the repeat at index 1 and kept more than one
\* element
C4_Witness == PrunedAt(1) /\ Len(pruned) >= 2

\* ------------------------------------------------------------------ C5
\* the points are pairwise distinct
AllDistinct ==
  \A i, j \in 1..Len(points) : i # j => ~VecEq(points[i], points[j])

\* C5 as stated, for the sets of at least 3 pairwise distinct points: the
\* length of the chain is at most N, the number of points, in every state, the
\* closed chain included.
C5_Original ==
  (Len(points) >= 3 /\ AllDistinct) => Len(line_segments) <= Len(points)

\* C5 amended: the length of the chain is at most N + 1.
C5_LengthBound == Len(line_segments) <= Len(points) + 1

\* the chain closed over all N points, N >= 3
C5_Witness ==
  /\ Len(points) >= 3
  /\ Len(line_segments) = Len(points) + 1
  /\ LastIsFirst(line_segments)

\* ------------------------------------------------------------------ C6
\* C6: for every point set with at least two distinct points, no two
\* consecutive elements of the chain are equal.
C6_NoAdjacentDuplicates ==
  TwoDistinct =>
    \A i \in 1..(Len(line_segments) - 1) :
      ~VecEq(line_segments[i], line_segments[i + 1])

\* ------------------------------------------------------------------ C7
\* C7: every element of the chain equals some element of the point set.
C7_Membership ==
  \A i \in 1..Len(line_segments) :
    \E j \in 1..Len(points) : VecEq(line_segments[i], points[j])

\* a chain that was pruned and appended to and no longer starts at points[0]
C7_Witness ==
  /\ Len(pruned) < Len(old)
  /\ branch = "append"
  /\ ~VecEq(line_segments[1], points[1])

\* ------------------------------------------------------------------ C8
\* the last call ran the selection
Selected == branch \in {"replace", "append"}

\* C8: a selection on a chain of exactly one element whose winning angle is
\* below 90 overwrites element 0 with the winner and leaves the length at 1;
\* every other selection appends the winner to the (possibly just pruned)
\* chain, whose length grows by exactly 1.
C8_DegenerateStart ==
  Selected =>
    IF Len(pruned) = 1 /\ AngLess90(min_ang)
    THEN line_segments = <<points[closest]>>
    ELSE /\ Len(line_segments) = Len(pruned) + 1
         /\ SubSeq(line_segments, 1, Len(pruned)) = pruned
         /\ line_segments[Len(line_segments)] = points[closest]

\* the first element was replaced by a different point
C8_Witness ==
  /\ branch = "replace"
  /\ Len(pruned) = 1
  /\ AngLess90(min_ang)
  /\ min_ang.cls = 1
  /\ ~VecEq(line_segments[1], pruned[1])

\* ------------------------------------------------------------------ C9
\* the remapped angle of C9 from v1 = lst - mean to v2 = p - lst: the
\* counter-clockwise angles 0..180 keep their value, a clockwise angle a < 0
\* becomes 180 - a
RemappedAngle(pts, l, p) ==
  LET v1x == Len(pts) * l[1] - SumX(pts)
      v1y == Len(pts) * l[2] - SumY(pts)
      v2x == p[1] - l[1]
      v2y == p[2] - l[2]
      dot == v1x * v2x + v1y * v2y
      det == v1x * v2y - v1y * v2x
  IN  IF det > 0 THEN [cls |-> 1, x |-> dot, y |-> det]
      ELSE IF det < 0 THEN [cls |-> 3, x |-> dot, y |-> 0 - det]
      ELSE IF dot < 0 THEN [cls |-> 2, x |-> -1, y |-> 0]
      ELSE [cls |-> 0, x |-> 1, y |-> 0]

\* the last vertex the last call selected from
Lst == pruned[Len(pruned)]

\* C9: in a selection with a candidate, the chosen point differs from the last
\* vertex and has the smallest remapped angle of the candidates, the lowest
\* index winning ties.
C9_Selection ==
  (Selected /\ \E j \in 1..Len(points) : ~VecEq(points[j], Lst)) =>
    /\ ~VecEq(points[closest], Lst)
    /\ \A j \in 1..Len(points) :
         ~VecEq(points[j], Lst) =>
           /\ ~AngLess(RemappedAngle(points, Lst, points[j]),
                       RemappedAngle(points, Lst, points[closest]))
           /\ (j < closest =>
                 AngLess(RemappedAngle(points, Lst, points[closest]),
                         RemappedAngle(points, Lst, points[j])))

\* ----------------------------------------------------------------- C10
\* C10: a selection that finds no candidate (every point coincides with the
\* last vertex) fails with NoCandidate and does not modify the chain, instead
\* of returning true or false.
C10_NoCandidate ==
  (Selected /\ \A j \in 1..Len(points) : VecEq(points[j], Lst)) =>
    /\ ret \notin {"true", "false"}
    /\ line_segments = old

\* ------------------------------------------------------------------ C11
\* C11: a call of SolverStep() that changes the chain adds exactly 1 to k,
\* a call that leaves the chain as it was, and so every call that returns
\* false, adds nothing, and k does not change without a call; k is therefore
\* the number of calls so far that changed the chain.
C11_StepCounter ==
  [][/\ calls' # calls =>
          /\ k' = k + (IF line_segments' # line_segments THEN 1 ELSE 0)
          /\ ret' = "false" => k' = k
     /\ calls' = calls => k' = k]_vars

\* the counter after a seed, appends, a call that erased a prefix and
\* appended, and the final call that returned false
C11_Witness == prunes = 1 /\ ret = "false" /\ calls = k + 1 /\ k >= 5

\* ------------------------------------------------------------------ C12
\* C12: a call made with a chain of length L >= 2 whose last element first
\* matches an earlier element at 0-based index idx > 0 returns true and
\* leaves old[idx+1 .. L-1] (0-based), unchanged and in order, followed by
\* the point the selection chose from the old last vertex.
C12_PruneThenSelect ==
  \A idx \in 1..(Len(old) - 2) :
    (/\ VecEq(old[idx + 1], old[Len(old)])
     /\ \A i \in 1..idx : ~VecEq(old[i], old[Len(old)])) =>
      /\ ret = "true"
      /\ pruned = SubSeq(old, idx + 2, Len(old))
      /\ line_segments =
           Append(pruned, points[Select(points, old[Len(old)]).closest])

\* a call found the first match at index 1, kept two old elements and
\* appended the winner
C12_Witness ==
  /\ PrunedAt(1)
  /\ ret = "true"
  /\ Len(line_segments) = Len(old) - 1
  /\ line_segments[Len(line_segments)] = points[closest]

\* ------------------------------------------------------------------ C13
\* C13: a loop iteration whose call of SolverStep() returned true writes one
\* image, numbered with the new value of k, one more than the last number
\* written; an iteration that made no call, or whose call returned false,
\* writes none.  The numbers written are so 1, 2, ..., k in this order.
C13_SnapshotOrder ==
  [][/\ IF calls' # calls /\ ret' = "true"
        THEN images' = Append(images, Len(images) + 1)
        ELSE images' = images
     /\ Len(images') = k'
     /\ \A i \in 1..Len(images') : images'[i] = i]_vars

\* five images are written, and the last iteration, made without a call
\* after the call that returned false, has written none
C13_Witness == images = <<1, 2, 3, 4, 5>> /\ ~ticked /\ ret = "false"

\* ------------------------------------------------------------------ C14
\* the last call of SolverStep() erased a prefix of the chain
LastCallPruned == ret = "true" /\ Len(pruned) < Len(old)

\* C14: over a point set with two distinct points at most one call erases a
\* prefix; that call leaves the chain closed, the point it appends being the
\* new first element, and every call after it returns false.
C14_PruneOnce ==
  TwoDistinct =>
    /\ prunes <= 1
    /\ LastCallPruned =>
         /\ LastIsFirst(line_segments)
         /\ Len(line_segments) = Len(pruned) + 1
         /\ VecEq(line_segments[Len(line_segments)], pruned[1])
    /\ (prunes >= 1 /\ ~LastCallPruned) => ret = "false"

\* a call has erased a prefix and the one call made since has returned false
C14_Witness ==
  /\ TwoDistinct
  /\ prunes = 1
  /\ branch = "done"
  /\ calls = k + 1
  /\ LastIsFirst(line_segments)

\* ------------------------------------------------------------------ C15
\* C15: when a call has returned false over a point set with two distinct
\* points, the chain is a simple closed cycle: it has at least 3 elements,
\* its last element equals its first, and the elements other than the last
\* are pairwise distinct.
C15_SimpleClosedCycle ==
  (TwoDistinct /\ ret = "false") =>
    /\ Len(line_segments) >= 3
    /\ VecEq(line_segments[Len(line_segments)], line_segments[1])
    /\ \A i, j \in 1..(Len(line_segments) - 1) :
         i # j => ~VecEq(line_segments[i], line_segments[j])

\* ------------------------------------------------------------------ C16
\* C16: over a point set of N points with two distinct points k never
\* exceeds 2N+1, and the call number 2N+2, and every later one, returns false.
C16_BoundedResponse ==
  TwoDistinct =>
    /\ k <= 2 * Len(points) + 1
    /\ calls >= 2 * Len(points) + 2 => ret = "false"

\* call number 2N+2 has been made over 3 points, after 4 calls that returned
\* true
C16_Witness ==
  /\ TwoDistinct
  /\ Len(points) = 3
  /\ calls = 2 * Len(points) + 2
  /\ k = 4
  /\ ret = "false"

\* ------------------------------------------------------------------ C17
\* C17: the chain is not empty after the first call of SolverStep(), and
\* no iteration draws before that call, so the drawing never reads an empty
\* chain.
C17_RenderNonEmpty ==
  /\ calls >= 1 => Len(line_segments) >= 1
  /\ segments # -1 => (calls >= 1 /\ segments >= 1)

\* the first iteration has called SolverStep() and drawn the seeded chain
C17_Witness == calls = 1 /\ ticked /\ Len(line_segments) = 1 /\ segments = 1
====
